---------------------------- MODULE Spec2Model ----------------------------
(***************************************************************************)
(* A model of rointesdk.rointe_api.RointeAPI: the session held by one      *)
(* client object (credentials, access token, refresh token, expiry), the   *)
(* token refresh gate that precedes every authenticated operation, the     *)
(* read operations, the backward search for energy statistics and the      *)
(* device commands (temperature, preset, HVAC mode); and, in a second      *)
(* specification, two threads that run the refresh gate on one client      *)
(* statement by statement.                                                 *)
(*                                                                         *)
(* The HTTP transport is the environment: every request is answered by a   *)
(* transport failure or by an HTTP response whose status and body the      *)
(* provider chooses freely.  Each public operation is one action; what it  *)
(* did (the gate's calls, the requests sent, the value returned or the     *)
(* exception raised) is recorded in op, ensures, requests and result.      *)
(***************************************************************************)
EXTENDS Integers, Sequences, FiniteSets, TLC

(* ---------------------------- bounds ---------------------------------- *)

\* The clock datetime.now() runs from 0 to MaxTime ticks.
MaxTime == 2

\* Ticks in one hour (now.replace(minute=0, ...) truncates to a multiple).
TicksPerHour == 2

\* The provider reports a time to live of 0..MaxTTL ticks.
MaxTTL == 1

\* The provider issues the tokens 1..NumTokens.
NumTokens == 2

(* ------------------------- program constants -------------------------- *)

\* settings.py: ENERGY_STATS_MAX_TRIES
ENERGY_STATS_MAX_TRIES == 5

\* Python's None for a token field (a token is a positive number).
None == 0

\* Python's None for auth_token_expire_date (a date is a tick >= 0).
NoDate == -1

(* ----------------------------- transport ------------------------------ *)

\* The HTTP statuses the provider answers with: 200, a success other than
\* 200, a client error and a server error.
Statuses == {200, 204, 400, 500}

\* The fields of a token response (login names them idToken, expiresIn,
\* refreshToken; refresh names them id_token, expires_in, refresh_token).
TokenFields == {"id_token", "expires_in", "refresh_token"}

\* No response: the request was not sent.
NoResponse ==
    [kind |-> "none", status |-> 0, json |-> FALSE, fields |-> {},
     tok |-> None, ttl |-> 0, body |-> "none"]

\* requests raised a RequestException.
TransportFailure ==
    [kind |-> "transport", status |-> 0, json |-> FALSE, fields |-> {},
     tok |-> None, ttl |-> 0, body |-> "none"]

\* What the identity provider can answer to a login or a refresh request:
\* json is whether the body parses, fields the keys of the parsed object,
\* tok the token pair and ttl the time to live it carries.
AuthResponses ==
    {TransportFailure}
    \cup {[kind |-> "http", status |-> s, json |-> FALSE, fields |-> {},
           tok |-> None, ttl |-> 0, body |-> "none"] : s \in Statuses}
    \cup {[kind |-> "http", status |-> 200, json |-> TRUE, fields |-> f,
           tok |-> k, ttl |-> d, body |-> "none"] :
             f \in SUBSET TokenFields, k \in 1..NumTokens, d \in 0..MaxTTL}

\* The bodies of a resource response: not JSON, JSON null, an empty object,
\* an object without the keys the operation reads, a complete object.
Bodies == {"notjson", "null", "empty", "partial", "full"}

\* What the device platform can answer to a resource request.
ResourceResponses ==
    {TransportFailure}
    \cup {[kind |-> "http", status |-> s, json |-> FALSE, fields |-> {},
           tok |-> None, ttl |-> 0, body |-> "notjson"] :
             s \in Statuses \ {200}}
    \cup {[kind |-> "http", status |-> 200, json |-> b # "notjson",
           fields |-> {}, tok |-> None, ttl |-> 0, body |-> b] : b \in Bodies}

\* requests.Response.__bool__ is Response.ok: the status is below 400.
ResponseOk(response) == response.status < 400

(* ------------------------------ results ------------------------------- *)

\* ApiResponse = namedtuple("ApiResponse", ["success", "data", "error_message"])
ApiResponse(success, data, error_message) ==
    [kind |-> "returned", success |-> success, data |-> data,
     start |-> 0, end |-> 0, error_message |-> error_message, exc |-> "None"]

\* ApiResponse(False, "...") with two arguments: the namedtuple's __new__
\* raises TypeError for the missing error_message.
ApiResponse2(success, data) ==
    [kind |-> "raised", success |-> FALSE, data |-> "None",
     start |-> 0, end |-> 0, error_message |-> "None", exc |-> "TypeError"]

\* An exception leaves the operation.
Raised(exc) ==
    [kind |-> "raised", success |-> FALSE, data |-> "None",
     start |-> 0, end |-> 0, error_message |-> "None", exc |-> exc]

\* No operation has been called yet.
NoResult ==
    [kind |-> "none", success |-> FALSE, data |-> "None",
     start |-> 0, end |-> 0, error_message |-> "None", exc |-> "None"]

(* ------------------------------- state -------------------------------- *)

VARIABLES
    api,        \* the RointeAPI object: username, password, refresh_token,
                \* auth_token, auth_token_expire_date
    now,        \* datetime.now()
    op,         \* the public operation that has just run ("none": the
                \* caller has taken its result)
    login,      \* the identity provider's answer to its login request
    ensures,    \* the _ensure_valid_auth() calls it made, in order
    requests,   \* the requests it sent, in order
    result,     \* what it returned or raised
    fresh,      \* the call before was a successful initialize_authentication()
                \* and the clock has not advanced since
    args,       \* the device and the value a command was called with
    stale,      \* a call before had a refresh fail on an expired session and
                \* no initialize_authentication() has succeeded since (kept
                \* by SpecHistory only)
    callers     \* the position of each concurrent caller inside
                \* _ensure_valid_auth() and _refresh_token()

vars ==
    <<api, now, op, login, ensures, requests, result, fresh, args, stale,
      callers>>

(* ------------------------------ session ------------------------------- *)

\* The three session fields of the object, as the log keeps them.
Session(self) ==
    [auth_token |-> self.auth_token, refresh_token |-> self.refresh_token,
     auth_token_expire_date |-> self.auth_token_expire_date]

\* One request as the log keeps it: the endpoint, the token it carries, the
\* hour it asks for (energy statistics) and the class of the answer.
Request(endpoint, token, hour, reply) ==
    [endpoint |-> endpoint, token |-> token, hour |-> hour, reply |-> reply]

\* The class of an identity provider's answer, in the order the code tests it.
AuthReply(resp) ==
    IF resp.kind = "none" THEN "none"
    ELSE IF resp.kind = "transport" THEN "transport"
    ELSE IF resp.status # 200 THEN "status"
    ELSE IF ~resp.json THEN "notjson"
    ELSE IF "id_token" \notin resp.fields THEN "no_id_token"
    ELSE IF resp.fields # TokenFields THEN "partial"
    ELSE "ok"

\* The class of the device platform's answer (null and an empty object are
\* both "empty").
ResourceReply(resp) ==
    IF resp.kind = "none" THEN "none"
    ELSE IF resp.kind = "transport" THEN "transport"
    ELSE IF resp.status # 200 THEN "status"
    ELSE IF resp.body \in {"null", "empty"} THEN "empty"
    ELSE resp.body

\* Python's truth value of what _refresh_token() returns: True, False, or
\* an ApiResponse, which is a non-empty tuple and so true.
Truthy(value) == value \in {"True", "ApiResponse"}

\* _refresh_token(): the value returned ("raise" when the exception exc
\* leaves it) and the object as the call leaves it.
RefreshToken(self, t, resp) ==
    IF resp.kind = "transport"
    THEN [api |-> self, ret |-> "ApiResponse", exc |-> "None"]
    ELSE IF ~ResponseOk(resp)
    THEN [api |-> self, ret |-> "False", exc |-> "None"]
    ELSE IF resp.status # 200
    THEN [api |-> self, ret |-> "False", exc |-> "None"]
    ELSE IF ~resp.json
    THEN [api |-> self, ret |-> "raise", exc |-> "JSONDecodeError"]
    ELSE IF resp.fields = {} \/ "id_token" \notin resp.fields
    THEN [api |-> self, ret |-> "False", exc |-> "None"]
    ELSE LET self1 == [self EXCEPT !.auth_token = resp.tok]
             self2 == [self1 EXCEPT !.auth_token_expire_date = t + resp.ttl]
             self3 == [self2 EXCEPT !.refresh_token = resp.tok]
         IN  IF "expires_in" \notin resp.fields
             THEN [api |-> self1, ret |-> "raise", exc |-> "KeyError"]
             ELSE IF "refresh_token" \notin resp.fields
             THEN [api |-> self2, ret |-> "raise", exc |-> "KeyError"]
             ELSE [api |-> self3, ret |-> "True", exc |-> "None"]

\* NeedsRefresh with the boundary moved: a date equal to now counts as passed.
NeedsRefreshAtExpiry(self, t) ==
    \/ self.auth_token = None
    \/ /\ self.auth_token_expire_date # NoDate
       /\ self.auth_token_expire_date <= t

\* The test of _ensure_valid_auth(): no token, or a date that has passed.
NeedsRefresh(self, t) ==
    \/ self.auth_token = None
    \/ /\ self.auth_token_expire_date # NoDate
       /\ self.auth_token_expire_date < t

\* EnsureValidAuth that logs in again when the refresh does not return a
\* true value.
EnsureValidAuthRelogin(self, t, resp) ==
    IF NeedsRefresh(self, t)
    THEN LET r == RefreshToken(self, t, resp)
             ret == IF r.ret = "raise" THEN "raise"
                    ELSE IF ~Truthy(r.ret) THEN "False" ELSE "True"
         IN  [api |-> r.api, ret |-> ret, exc |-> r.exc,
              ev |-> [refresh |-> TRUE, reply |-> AuthReply(resp),
                      refresh_ret |-> r.ret, ret |-> ret, at |-> t,
                      before |-> Session(self), after |-> Session(r.api)],
              reqs |-> <<Request("refresh", self.refresh_token, 0,
                                 AuthReply(resp))>>
                       \o (IF ret = "False"
                           THEN <<Request("login", None, 0, "transport")>>
                           ELSE <<>>)]
    ELSE [api |-> self, ret |-> "True", exc |-> "None",
          ev |-> [refresh |-> FALSE, reply |-> "none",
                  refresh_ret |-> "none", ret |-> "True", at |-> t,
                  before |-> Session(self), after |-> Session(self)],
          reqs |-> <<>>]

\* _ensure_valid_auth(): the value returned ("raise" when the refresh
\* raised), the object as the call leaves it, the call's log entry and the
\* request it sent.
EnsureValidAuth(self, t, resp) ==
    IF NeedsRefresh(self, t)
    THEN LET r == RefreshToken(self, t, resp)
             ret == IF r.ret = "raise" THEN "raise"
                    ELSE IF ~Truthy(r.ret) THEN "False" ELSE "True"
         IN  [api |-> r.api, ret |-> ret, exc |-> r.exc,
              ev |-> [refresh |-> TRUE, reply |-> AuthReply(resp),
                      refresh_ret |-> r.ret, ret |-> ret, at |-> t,
                      before |-> Session(self), after |-> Session(r.api)],
              reqs |-> <<Request("refresh", self.refresh_token, 0,
                                 AuthReply(resp))>>]
    ELSE [api |-> self, ret |-> "True", exc |-> "None",
          ev |-> [refresh |-> FALSE, reply |-> "none",
                  refresh_ret |-> "none", ret |-> "True", at |-> t,
                  before |-> Session(self), after |-> Session(self)],
          reqs |-> <<>>]

\* The answers the refresh request of an _ensure_valid_auth() call can get:
\* none when the call sends no request.
RefreshAnswers(self, t) ==
    IF NeedsRefresh(self, t) THEN AuthResponses ELSE {NoResponse}

\* The answers the resource request behind an _ensure_valid_auth() call can
\* get: none when the call did not return a true value.
ResourceAnswers(self, t, resp) ==
    IF EnsureValidAuth(self, t, resp).ret = "True"
    THEN ResourceResponses ELSE {NoResponse}

(* ------------------------- authentication ----------------------------- *)

\* The data of a successful _login_user().
LoginData(t, resp) ==
    [auth_token |-> resp.tok, expires |-> t + resp.ttl,
     refresh_token |-> resp.tok]

\* LoginUser without the test for status 400.
LoginUserNo400(self, t, resp) ==
    IF resp.kind = "transport"
    THEN ApiResponse(FALSE, "None", "Network error")
    ELSE IF resp.status # 200
    THEN ApiResponse(FALSE, "None", "response_invalid")
    ELSE IF ~resp.json
    THEN Raised("JSONDecodeError")
    ELSE IF resp.fields = {} \/ "id_token" \notin resp.fields
    THEN ApiResponse(FALSE, "None", "invalid_auth_response")
    ELSE IF "expires_in" \notin resp.fields \/ "refresh_token" \notin resp.fields
    THEN Raised("KeyError")
    ELSE ApiResponse(TRUE, "login_data", "None")

\* _login_user(): the ApiResponse returned, or the exception raised.
LoginUser(self, t, resp) ==
    IF resp.kind = "transport"
    THEN ApiResponse(FALSE, "None", "Network error")
    ELSE IF resp.status = 400
    THEN ApiResponse(FALSE, "None", "invalid_auth")
    ELSE IF resp.status # 200
    THEN ApiResponse(FALSE, "None", "response_invalid")
    ELSE IF ~resp.json
    THEN Raised("JSONDecodeError")
    ELSE IF resp.fields = {} \/ "id_token" \notin resp.fields
    THEN ApiResponse(FALSE, "None", "invalid_auth_response")
    ELSE IF "expires_in" \notin resp.fields \/ "refresh_token" \notin resp.fields
    THEN Raised("KeyError")
    ELSE ApiResponse(TRUE, "login_data", "None")

\* CleanCredentials that forgets the password.
CleanCredentialsKeepsPassword(self) ==
    [self EXCEPT !.username = "None"]

\* _clean_credentials()
CleanCredentials(self) ==
    [self EXCEPT !.username = "None", !.password = "None"]

\* initialize_authentication(): the object as the call leaves it and the
\* ApiResponse returned or the exception raised.
InitializeAuthentication(self, t, resp) ==
    LET login_data == LoginUser(self, t, resp)
        data == LoginData(t, resp)
    IN  IF login_data.kind = "raised"
        THEN [api |-> self, result |-> login_data]
        ELSE IF ~login_data.success
        THEN [api |-> [self EXCEPT !.auth_token = None,
                                   !.refresh_token = None],
              result |-> login_data]
        ELSE [api |-> CleanCredentials(
                        [self EXCEPT
                           !.auth_token = data.auth_token,
                           !.refresh_token = data.refresh_token,
                           !.auth_token_expire_date = data.expires]),
              result |-> ApiResponse(TRUE, "None", "None")]

(* -------------------------- read operations --------------------------- *)

\* What an authenticated call did: the object as it leaves it, its
\* _ensure_valid_auth() calls, its requests and its result.
Outcome(self, evs, reqs, res) ==
    [api |-> self, ensures |-> evs, requests |-> reqs, result |-> res]

\* get_local_id()
GetLocalId(self, t, r1, r2) ==
    LET e == EnsureValidAuth(self, t, r1)
        sent == e.reqs \o <<Request("get_local_id", e.api.auth_token, 0,
                                    ResourceReply(r2))>>
    IN  IF e.ret = "raise"
        THEN Outcome(e.api, <<e.ev>>, e.reqs, Raised(e.exc))
        ELSE IF e.ret = "False"
        THEN Outcome(e.api, <<e.ev>>, e.reqs,
                     ApiResponse(FALSE, "None", "Invalid authentication."))
        ELSE Outcome(e.api, <<e.ev>>, sent,
               IF r2.kind = "transport"
               THEN ApiResponse(FALSE, "None", "Network error")
               ELSE IF ~ResponseOk(r2)
               THEN ApiResponse(FALSE, "None",
                                "No response from API call to get_local_id()")
               ELSE IF r2.status # 200
               THEN ApiResponse(FALSE, "None", "get_local_id() returned status")
               ELSE IF r2.body = "notjson" THEN Raised("JSONDecodeError")
               ELSE IF r2.body = "null" THEN Raised("TypeError")
               ELSE IF r2.body \in {"empty", "partial"} THEN Raised("KeyError")
               ELSE ApiResponse(TRUE, "localId", "None"))

\* get_installation_by_id(installation_id, local_id)
GetInstallationById(self, t, r1, r2) ==
    LET e == EnsureValidAuth(self, t, r1)
        sent == e.reqs \o <<Request("get_installation_by_id",
                                    e.api.auth_token, 0, ResourceReply(r2))>>
    IN  IF e.ret = "raise"
        THEN Outcome(e.api, <<e.ev>>, e.reqs, Raised(e.exc))
        ELSE IF e.ret = "False"
        THEN Outcome(e.api, <<e.ev>>, e.reqs,
                     ApiResponse(FALSE, "None", "Invalid authentication."))
        ELSE Outcome(e.api, <<e.ev>>, sent,
               IF r2.kind = "transport"
               THEN ApiResponse(FALSE, "None", "Network error")
               ELSE IF ~ResponseOk(r2)
               THEN ApiResponse2(FALSE,
                      "No response from API in get_installation_by_id()")
               ELSE IF r2.status # 200
               THEN ApiResponse(FALSE, "None",
                                "get_installation_by_id() returned status")
               ELSE IF r2.body = "notjson" THEN Raised("JSONDecodeError")
               ELSE IF r2.body = "null" THEN Raised("TypeError")
               ELSE IF r2.body \in {"empty", "partial"}
               THEN ApiResponse(FALSE, "None", "No Rointe installation found.")
               ELSE ApiResponse(TRUE, "installation", "None"))

\* get_latest_firmware(): build_update_map() maps a product whose device
\* type the settings do not hold to None, so a partial object is a success.
GetLatestFirmware(self, t, r1, r2) ==
    LET e == EnsureValidAuth(self, t, r1)
        sent == e.reqs \o <<Request("get_latest_firmware", e.api.auth_token,
                                    0, ResourceReply(r2))>>
    IN  IF e.ret = "raise"
        THEN Outcome(e.api, <<e.ev>>, e.reqs, Raised(e.exc))
        ELSE IF e.ret = "False"
        THEN Outcome(e.api, <<e.ev>>, e.reqs,
                     ApiResponse(FALSE, "None", "Invalid authentication."))
        ELSE Outcome(e.api, <<e.ev>>, sent,
               IF r2.kind = "transport"
               THEN ApiResponse(FALSE, "None", "Network error")
               ELSE IF ~ResponseOk(r2)
               THEN ApiResponse2(FALSE,
                      "No response from API in get_latest_firmware()")
               ELSE IF r2.status # 200
               THEN ApiResponse(FALSE, "None",
                                "get_latest_firmware() returned status")
               ELSE IF r2.body = "notjson" THEN Raised("JSONDecodeError")
               ELSE IF r2.body = "null" THEN Raised("TypeError")
               ELSE IF r2.body = "empty"
               THEN ApiResponse(FALSE, "None", "Global Settings is empty.")
               ELSE ApiResponse(TRUE, "fw_map", "None"))

\* get_installations(local_id)
GetInstallations(self, t, r1, r2) ==
    LET e == EnsureValidAuth(self, t, r1)
        sent == e.reqs \o <<Request("get_installations", e.api.auth_token, 0,
                                    ResourceReply(r2))>>
    IN  IF e.ret = "raise"
        THEN Outcome(e.api, <<e.ev>>, e.reqs, Raised(e.exc))
        ELSE IF e.ret = "False"
        THEN Outcome(e.api, <<e.ev>>, e.reqs,
                     ApiResponse(FALSE, "None", "Invalid authentication."))
        ELSE Outcome(e.api, <<e.ev>>, sent,
               IF r2.kind = "transport"
               THEN ApiResponse(FALSE, "None", "Network error")
               ELSE IF ~ResponseOk(r2)
               THEN ApiResponse2(FALSE,
                      "No response from API in get_installations()")
               ELSE IF r2.status # 200
               THEN ApiResponse(FALSE, "None",
                                "get_installations() returned status")
               ELSE IF r2.body = "notjson" THEN Raised("JSONDecodeError")
               ELSE IF r2.body = "null" THEN Raised("TypeError")
               ELSE IF r2.body = "empty"
               THEN ApiResponse(FALSE, "None", "No Rointe installations found.")
               ELSE IF r2.body = "partial" THEN Raised("KeyError")
               ELSE ApiResponse(TRUE, "installations", "None"))

\* GetDevice that sends its request whatever _ensure_valid_auth() returned.
GetDeviceUngated(self, t, r1, r2) ==
    LET e == EnsureValidAuth(self, t, r1)
        sent == e.reqs \o <<Request("get_device", e.api.auth_token, 0,
                                    ResourceReply(r2))>>
    IN  IF e.ret = "raise"
        THEN Outcome(e.api, <<e.ev>>, e.reqs, Raised(e.exc))
        ELSE Outcome(e.api, <<e.ev>>, sent,
               IF e.ret = "False"
               THEN ApiResponse(FALSE, "None", "Invalid authentication.")
               ELSE IF r2.kind = "transport"
               THEN ApiResponse(FALSE, "None", "Network error")
               ELSE IF ~ResponseOk(r2)
               THEN ApiResponse2(FALSE, "No response from API in get_device()")
               ELSE IF r2.status # 200
               THEN ApiResponse(FALSE, "None", "get_device() returned status")
               ELSE IF r2.body = "notjson" THEN Raised("JSONDecodeError")
               ELSE IF r2.body = "null" THEN ApiResponse(TRUE, "None", "None")
               ELSE ApiResponse(TRUE, "device", "None"))

\* get_device(device_id)
GetDevice(self, t, r1, r2) ==
    LET e == EnsureValidAuth(self, t, r1)
        sent == e.reqs \o <<Request("get_device", e.api.auth_token, 0,
                                    ResourceReply(r2))>>
    IN  IF e.ret = "raise"
        THEN Outcome(e.api, <<e.ev>>, e.reqs, Raised(e.exc))
        ELSE IF e.ret = "False"
        THEN Outcome(e.api, <<e.ev>>, e.reqs,
                     ApiResponse(FALSE, "None", "Invalid authentication."))
        ELSE Outcome(e.api, <<e.ev>>, sent,
               IF r2.kind = "transport"
               THEN ApiResponse(FALSE, "None", "Network error")
               ELSE IF ~ResponseOk(r2)
               THEN ApiResponse2(FALSE, "No response from API in get_device()")
               ELSE IF r2.status # 200
               THEN ApiResponse(FALSE, "None", "get_device() returned status")
               ELSE IF r2.body = "notjson" THEN Raised("JSONDecodeError")
               ELSE IF r2.body = "null" THEN ApiResponse(TRUE, "None", "None")
               ELSE ApiResponse(TRUE, "device", "None"))

(* ------------------------- energy statistics ------------------------- *)

\* TruncateToHour that keeps the minutes.
TruncateToHourKeepsMinutes(t) == t

\* now.replace(minute=0, second=0, microsecond=0)
TruncateToHour(t) == t - (t % TicksPerHour)

\* timedelta(hours=1)
OneHour == TicksPerHour

\* _retrieve_hour_energy_stats(device_id, target_date)
RetrieveHourEnergyStats(self, t, target_date, r1, r2) ==
    LET e == EnsureValidAuth(self, t, r1)
        sent == e.reqs \o <<Request("energy", e.api.auth_token, target_date,
                                    ResourceReply(r2))>>
    IN  IF e.ret = "raise"
        THEN Outcome(e.api, <<e.ev>>, e.reqs, Raised(e.exc))
        ELSE IF e.ret = "False"
        THEN Outcome(e.api, <<e.ev>>, e.reqs,
                     ApiResponse(FALSE, "None", "Invalid authentication."))
        ELSE Outcome(e.api, <<e.ev>>, sent,
               IF r2.kind = "transport"
               THEN ApiResponse(FALSE, "None", "Network error")
               ELSE IF ~ResponseOk(r2)
               THEN ApiResponse2(FALSE,
                      "No response from API in _retrieve_hour_energy_stats()")
               ELSE IF r2.status # 200
               THEN ApiResponse(FALSE, "None",
                      "_retrieve_hour_energy_stats() returned status")
               ELSE IF r2.body = "notjson" THEN Raised("JSONDecodeError")
               ELSE IF r2.body \in {"null", "empty"}
               THEN ApiResponse(FALSE, "None", "No energy stats found.")
               ELSE IF r2.body = "partial" THEN Raised("KeyError")
               ELSE [ApiResponse(TRUE, "EnergyConsumptionData", "None") EXCEPT
                        !.start = target_date, !.end = target_date + OneHour])

\* The while loop of get_latest_energy_stats(): every way it can end from
\* attempts tries left at target_date, under every answer of the transport;
\* log holds the calls and requests of the tries made so far.
RECURSIVE EnergySearch(_, _, _, _, _)
EnergySearch(self, t, attempts, target_date, log) ==
    IF ~(attempts > 0)
    THEN {Outcome(self, log.ensures, log.requests,
                  ApiResponse(FALSE, "None", "Max tries exceeded."))}
    ELSE UNION { UNION {
           LET res == RetrieveHourEnergyStats(self, t, target_date, r1, r2)
               acc == [ensures |-> log.ensures \o res.ensures,
                       requests |-> log.requests \o res.requests]
           IN  IF /\ res.result.kind = "returned"
                  /\ res.result.error_message = "No energy stats found."
               THEN EnergySearch(res.api, t, attempts - 1,
                                 target_date - OneHour, acc)
               ELSE {Outcome(res.api, acc.ensures, acc.requests, res.result)}
           : r2 \in ResourceAnswers(self, t, r1) }
         : r1 \in RefreshAnswers(self, t) }

\* get_latest_energy_stats(device_id): every way the call can end.
GetLatestEnergyStats(self, t) ==
    EnergySearch(self, t, ENERGY_STATS_MAX_TRIES, TruncateToHour(t),
                 [ensures |-> <<>>, requests |-> <<>>])

(* ------------------------------ devices ------------------------------- *)

\* The letters of a schedule slot: Comfort, Eco and no schedule.
ScheduleLetters == {"C", "E", "O"}

\* utils.now().weekday(): the clock starts on a Monday at 00:00.
Weekday(t) == ((t \div TicksPerHour) \div 24) % 7

\* utils.now().hour
HourIndex(t) == (t \div TicksPerHour) % 24

\* The slots of the week the clock can be in.
Slots == {<<Weekday(t), HourIndex(t)>> : t \in 0..MaxTime}

\* device.schedule: a letter for every slot (schedule[day_of_week][hour_index]).
Schedules == [Slots -> ScheduleLetters]

\* A RointeDevice, by the fields the commands read.
Devices ==
    [mode : {"auto", "manual"}, ice_mode : BOOLEAN, schedule : Schedules,
     comfort_temp : {21}, eco_temp : {18}, ice_temp : {7}]

\* RointeDevice.get_current_schedule_mode()
GetCurrentScheduleMode(device, t) ==
    LET current_mode == device.schedule[<<Weekday(t), HourIndex(t)>>]
    IN  IF current_mode = "C" THEN "COMFORT"
        ELSE IF current_mode = "E" THEN "ECO"
        ELSE "NONE"

(* ------------------------------ commands ------------------------------ *)

\* What the device platform can answer to a PATCH request (the body of the
\* answer is not read).
PatchResponses ==
    {TransportFailure}
    \cup {[kind |-> "http", status |-> s, json |-> FALSE, fields |-> {},
           tok |-> None, ttl |-> 0, body |-> "none"] : s \in Statuses}

\* The class of the answer to a PATCH request.
PatchReply(resp) ==
    IF resp.kind = "transport" THEN "transport"
    ELSE IF resp.status # 200 THEN "status"
    ELSE "ok"

\* One PATCH request as the log keeps it: a request with its JSON body.
Patch(token, body, reply) ==
    [endpoint |-> "patch", token |-> token, hour |-> 0, reply |-> reply,
     body |-> body]

\* _send_patch_request(url, params, body): the request it sends and the
\* result it returns when the transport answers resp.
SendPatchRequest(t, token, body, resp) ==
    LET stamped == body @@ [last_sync_datetime_app |-> t]
    IN  [request |-> Patch(token, stamped, PatchReply(resp)),
         result |->
            IF resp.kind = "transport"
            THEN ApiResponse(FALSE, "None", "Network error")
            ELSE IF ~ResponseOk(resp) THEN ApiResponse(FALSE, "None", "None")
            ELSE IF resp.status # 200 THEN ApiResponse(FALSE, "None", "None")
            ELSE ApiResponse(TRUE, "None", "None")]

\* The body {} of a command that has set no field.
EmptyBody == <<>>

\* A command that sends one PATCH after the gate call e: every way it can
\* end.
PatchOnce(e, t, body) ==
    { LET s == SendPatchRequest(t, e.api.auth_token, body, p)
      IN  Outcome(e.api, <<e.ev>>, e.reqs \o <<s.request>>, s.result)
      : p \in PatchResponses }

\* PatchTwice that goes on to the second PATCH whatever the first returned.
PatchTwiceNoAbort(e, t, body1, body2) ==
    UNION { { LET s1 == SendPatchRequest(t, e.api.auth_token, body1, p1)
                  s2 == SendPatchRequest(t, e.api.auth_token, body2, p2)
              IN  Outcome(e.api, <<e.ev>>,
                          e.reqs \o <<s1.request, s2.request>>, s2.result)
              : p2 \in PatchResponses }
          : p1 \in PatchResponses }

\* A command that sends one PATCH, returns its result if it failed
\* (if not set_mode_response.success: return set_mode_response) and
\* otherwise returns the result of a second PATCH: every way it can end.
PatchTwice(e, t, body1, body2) ==
    UNION { LET s1 == SendPatchRequest(t, e.api.auth_token, body1, p1)
            IN  IF ~s1.result.success
                THEN {Outcome(e.api, <<e.ev>>, e.reqs \o <<s1.request>>,
                              s1.result)}
                ELSE { LET s2 == SendPatchRequest(t, e.api.auth_token,
                                                  body2, p2)
                       IN  Outcome(e.api, <<e.ev>>,
                                   e.reqs \o <<s1.request, s2.request>>,
                                   s2.result)
                       : p2 \in PatchResponses }
          : p1 \in PatchResponses }

\* set_device_temp(device, new_temp): every way the call can end.
SetDeviceTemp(self, t, device, new_temp) ==
    UNION { LET e == EnsureValidAuth(self, t, r1)
            IN  IF e.ret = "raise"
                THEN {Outcome(e.api, <<e.ev>>, e.reqs, Raised(e.exc))}
                ELSE IF e.ret = "False"
                THEN {Outcome(e.api, <<e.ev>>, e.reqs,
                        ApiResponse(FALSE, "None", "Invalid authentication."))}
                ELSE PatchOnce(e, t, [temp |-> new_temp, mode |-> "manual",
                                      power |-> TRUE])
          : r1 \in RefreshAnswers(self, t) }

\* The body set_device_preset() builds for preset_mode.
PresetBody(device, preset_mode) ==
    IF preset_mode = "comfort"
    THEN [power |-> TRUE, mode |-> "manual", temp |-> device.comfort_temp,
          status |-> "comfort"]
    ELSE IF preset_mode = "eco"
    THEN [power |-> TRUE, mode |-> "manual", temp |-> device.eco_temp,
          status |-> "eco"]
    ELSE IF preset_mode = "Anti-frost"
    THEN [power |-> TRUE, mode |-> "manual", temp |-> device.ice_temp,
          status |-> "ice"]
    ELSE EmptyBody

\* set_device_preset(device, preset_mode): every way the call can end.
SetDevicePreset(self, t, device, preset_mode) ==
    UNION { LET e == EnsureValidAuth(self, t, r1)
            IN  IF e.ret = "raise"
                THEN {Outcome(e.api, <<e.ev>>, e.reqs, Raised(e.exc))}
                ELSE IF e.ret = "False"
                THEN {Outcome(e.api, <<e.ev>>, e.reqs,
                        ApiResponse(FALSE, "None", "Invalid authentication."))}
                ELSE PatchOnce(e, t, PresetBody(device, preset_mode))
          : r1 \in RefreshAnswers(self, t) }

\* SetDeviceModeOff that takes the two-step path whatever the device's mode.
SetDeviceModeOffTwoSteps(e, t, device) ==
    PatchTwice(e, t, [temp |-> 20],
               [power |-> FALSE, mode |-> "manual", status |-> "off"])

\* set_device_mode(device, "off") after the gate call e: one PATCH for a
\* device in auto mode, the temperature and then the power-off otherwise.
SetDeviceModeOff(e, t, device) ==
    IF device.mode = "auto"
    THEN PatchOnce(e, t, [power |-> FALSE, mode |-> "auto", status |-> "off"])
    ELSE PatchTwice(e, t, [temp |-> 20],
                    [power |-> FALSE, mode |-> "manual", status |-> "off"])

\* AutoTemp that looks at the anti-frost flag before the schedule.
AutoTempIceFirst(device, t) ==
    LET current_mode == GetCurrentScheduleMode(device, t)
    IN  IF device.ice_mode THEN device.ice_temp
        ELSE IF current_mode = "COMFORT" THEN device.comfort_temp
        ELSE IF current_mode = "ECO" THEN device.eco_temp
        ELSE 20

\* The temperature set_device_mode(device, "auto") sends first.
AutoTemp(device, t) ==
    LET current_mode == GetCurrentScheduleMode(device, t)
    IN  IF current_mode = "COMFORT" THEN device.comfort_temp
        ELSE IF current_mode = "ECO" THEN device.eco_temp
        ELSE IF device.ice_mode THEN device.ice_temp
        ELSE 20

\* set_device_mode(device, hvac_mode): every way the call can end.
SetDeviceMode(self, t, device, hvac_mode) ==
    UNION { LET e == EnsureValidAuth(self, t, r1)
            IN  IF e.ret = "raise"
                THEN {Outcome(e.api, <<e.ev>>, e.reqs, Raised(e.exc))}
                ELSE IF e.ret = "False"
                THEN {Outcome(e.api, <<e.ev>>, e.reqs,
                        ApiResponse(FALSE, "None", "Invalid authentication."))}
                ELSE IF hvac_mode = "off"
                THEN SetDeviceModeOff(e, t, device)
                ELSE IF hvac_mode = "heat"
                THEN PatchTwice(e, t, [temp |-> device.comfort_temp],
                                [mode |-> "manual", power |-> TRUE,
                                 status |-> "none"])
                ELSE IF hvac_mode = "auto"
                THEN PatchTwice(e, t, [temp |-> AutoTemp(device, t)],
                                [mode |-> "auto", power |-> TRUE])
                ELSE {Outcome(e.api, <<e.ev>>, e.reqs,
                        ApiResponse(FALSE, "None", "Invalid HVAC Mode"))}
          : r1 \in RefreshAnswers(self, t) }

(* ----------------------- arguments of the commands -------------------- *)

\* A device with no schedule, in manual mode, without anti-frost.
DefaultDevice ==
    [mode |-> "manual", ice_mode |-> FALSE,
     schedule |-> [s \in Slots |-> "O"],
     comfort_temp |-> 21, eco_temp |-> 18, ice_temp |-> 7]

\* The devices that differ from DefaultDevice in the given fields only: a
\* command is called with every value of the fields it reads.
DevicesReading(fields) ==
    {d \in Devices :
        \A f \in (DOMAIN d) \ fields : d[f] = DefaultDevice[f]}

\* The HVAC modes a caller passes: the three the code handles and another.
HvacModes == {"off", "heat", "auto", "cool"}

\* The fields of the device set_device_mode() reads for hvac_mode.
ModeReads(hvac_mode) ==
    IF hvac_mode = "off" THEN {"mode"}
    ELSE IF hvac_mode = "heat" THEN {"comfort_temp"}
    ELSE IF hvac_mode = "auto"
    THEN {"schedule", "ice_mode", "comfort_temp", "eco_temp", "ice_temp"}
    ELSE {}

\* The presets a caller passes: the three the code handles, "off", the
\* lower-case "anti-frost" and another.
PresetModes == {"comfort", "eco", "Anti-frost", "anti-frost", "off", "boost"}

\* The temperatures a caller passes.
NewTemps == {19, 23}

\* No command was called.
NoArgs ==
    [device |-> DefaultDevice, hvac_mode |-> "None", preset_mode |-> "None",
     new_temp |-> 0]

\* The calls of set_device_temp().
TempCalls ==
    {[NoArgs EXCEPT !.device = d, !.new_temp = x] :
        d \in DevicesReading({}), x \in NewTemps}

\* The calls of set_device_preset().
PresetCalls ==
    {[NoArgs EXCEPT !.device = d, !.preset_mode = m] :
        d \in DevicesReading({"mode"}), m \in PresetModes}

\* The calls of set_device_mode().
ModeCalls ==
    UNION { {[NoArgs EXCEPT !.device = d, !.hvac_mode = m] :
                d \in DevicesReading(ModeReads(m))}
          : m \in HvacModes }

(* ------------------------------ history ------------------------------- *)

\* The session s is Expired at time t: it holds an access token whose
\* expiry has passed.
Expired(s, t) ==
    /\ s.auth_token # None
    /\ s.auth_token_expire_date # NoDate
    /\ s.auth_token_expire_date < t

\* The _ensure_valid_auth() call ev found the session Expired and its
\* refresh did not replace the session.
RefreshFailedOnExpired(ev) ==
    /\ ev.refresh
    /\ ev.reply # "ok"
    /\ Expired(ev.before, ev.at)

(* ------------------------------ callers ------------------------------- *)

\* The threads that call authenticated operations on the one client.
Callers == {"a", "b"}

\* A caller that has not entered _ensure_valid_auth(): pc is its position,
\* resp the refresh response it holds, date the expiry it computed from it
\* and ret what its _ensure_valid_auth() returned.
Outside == [pc |-> "idle", resp |-> NoResponse, date |-> NoDate, ret |-> "none"]

(* ------------------------------ actions ------------------------------- *)

\* RointeAPI(username, password)
Init ==
    /\ api = [username |-> "user", password |-> "secret",
              refresh_token |-> None, auth_token |-> None,
              auth_token_expire_date |-> NoDate]
    /\ now = 0
    /\ op = "none"
    /\ login = NoResponse
    /\ ensures = <<>>
    /\ requests = <<>>
    /\ result = NoResult
    /\ fresh = FALSE
    /\ args = NoArgs
    /\ stale = FALSE
    /\ callers = [c \in Callers |-> Outside]

\* The clock advances between two calls.
Tick ==
    /\ op = "none"
    /\ now < MaxTime
    /\ now' = now + 1
    /\ fresh' = FALSE
    /\ UNCHANGED <<api, op, login, ensures, requests, result, args, stale,
                   callers>>

\* The caller takes the result of the call; the record of the call is
\* dropped (all but the history of failed refreshes).
Returned ==
    /\ op # "none"
    /\ op' = "none"
    /\ login' = NoResponse
    /\ ensures' = <<>>
    /\ requests' = <<>>
    /\ result' = NoResult
    /\ fresh' = (op = "initialize_authentication"
                 /\ result.kind = "returned" /\ result.success)
    /\ args' = NoArgs
    /\ UNCHANGED <<api, now, callers>>

\* The caller takes the result of the call.
Return == Returned /\ UNCHANGED stale

\* The caller takes the result of the call, and the history keeps whether a
\* refresh has failed on an Expired session since the last successful
\* initialize_authentication().
ReturnNoting ==
    /\ Returned
    /\ stale' = IF op = "initialize_authentication"
                THEN stale /\ ~(result.kind = "returned" /\ result.success)
                ELSE stale \/ \E i \in DOMAIN ensures :
                                 RefreshFailedOnExpired(ensures[i])

\* A call of initialize_authentication().
initialize_authentication ==
    /\ op = "none"
    /\ \E resp \in AuthResponses :
        LET out == InitializeAuthentication(api, now, resp)
        IN  /\ api' = out.api
            /\ op' = "initialize_authentication"
            /\ login' = resp
            /\ ensures' = <<>>
            /\ requests' = <<Request("login", None, 0, AuthReply(resp))>>
            /\ result' = out.result
            /\ UNCHANGED <<now, fresh, args, stale, callers>>

\* The state after an authenticated operation.
Called(name, out) ==
    /\ api' = out.api
    /\ op' = name
    /\ login' = NoResponse
    /\ ensures' = out.ensures
    /\ requests' = out.requests
    /\ result' = out.result
    /\ UNCHANGED <<now, fresh, args, stale, callers>>

\* A call of get_local_id().
get_local_id ==
    /\ op = "none"
    /\ \E r1 \in RefreshAnswers(api, now) :
        \E r2 \in ResourceAnswers(api, now, r1) :
            Called("get_local_id", GetLocalId(api, now, r1, r2))

\* A call of get_installation_by_id().
get_installation_by_id ==
    /\ op = "none"
    /\ \E r1 \in RefreshAnswers(api, now) :
        \E r2 \in ResourceAnswers(api, now, r1) :
            Called("get_installation_by_id",
                   GetInstallationById(api, now, r1, r2))

\* A call of get_latest_firmware().
get_latest_firmware ==
    /\ op = "none"
    /\ \E r1 \in RefreshAnswers(api, now) :
        \E r2 \in ResourceAnswers(api, now, r1) :
            Called("get_latest_firmware", GetLatestFirmware(api, now, r1, r2))

\* A call of get_installations().
get_installations ==
    /\ op = "none"
    /\ \E r1 \in RefreshAnswers(api, now) :
        \E r2 \in ResourceAnswers(api, now, r1) :
            Called("get_installations", GetInstallations(api, now, r1, r2))

\* A call of get_device().
get_device ==
    /\ op = "none"
    /\ \E r1 \in RefreshAnswers(api, now) :
        \E r2 \in ResourceAnswers(api, now, r1) :
            Called("get_device", GetDevice(api, now, r1, r2))

\* A call of get_latest_energy_stats().
get_latest_energy_stats ==
    /\ op = "none"
    /\ \E out \in GetLatestEnergyStats(api, now) :
            Called("get_latest_energy_stats", out)

\* The state after a command called with the arguments a.
Commanded(name, a, out) ==
    /\ api' = out.api
    /\ op' = name
    /\ login' = NoResponse
    /\ ensures' = out.ensures
    /\ requests' = out.requests
    /\ result' = out.result
    /\ args' = a
    /\ UNCHANGED <<now, fresh, stale, callers>>

\* A call of set_device_temp(device, new_temp).
set_device_temp ==
    /\ op = "none"
    /\ \E a \in TempCalls :
        \E out \in SetDeviceTemp(api, now, a.device, a.new_temp) :
            Commanded("set_device_temp", a, out)

\* A call of set_device_preset(device, preset_mode).
set_device_preset ==
    /\ op = "none"
    /\ \E a \in PresetCalls :
        \E out \in SetDevicePreset(api, now, a.device, a.preset_mode) :
            Commanded("set_device_preset", a, out)

\* A call of set_device_mode(device, hvac_mode).
set_device_mode ==
    /\ op = "none"
    /\ \E a \in ModeCalls :
        \E out \in SetDeviceMode(api, now, a.device, a.hvac_mode) :
            Commanded("set_device_mode", a, out)

Next ==
    \/ Tick
    \/ Return
    \/ initialize_authentication
    \/ get_local_id
    \/ get_installation_by_id
    \/ get_latest_firmware
    \/ get_installations
    \/ get_device
    \/ get_latest_energy_stats
    \/ set_device_temp
    \/ set_device_preset
    \/ set_device_mode

Spec == Init /\ [][Next]_vars

\* The same client, with the history of failed refreshes kept.
NextHistory ==
    \/ Tick
    \/ ReturnNoting
    \/ initialize_authentication
    \/ get_local_id
    \/ get_installation_by_id
    \/ get_latest_firmware
    \/ get_installations
    \/ get_device
    \/ get_latest_energy_stats
    \/ set_device_temp
    \/ set_device_preset
    \/ set_device_mode

SpecHistory == Init /\ [][NextHistory]_vars

(* -------------------------- concurrent callers ------------------------ *)

\* Two threads call authenticated operations on one client.  Each runs
\* _ensure_valid_auth() and, inside it, _refresh_token() statement by
\* statement; the statements of the two interleave freely.  The log requests
\* holds the refresh requests in the order they were sent.

\* What the session log and the sequential callers' variables keep.
sequentialVars == <<op, login, ensures, result, fresh, args, stale>>

\* A caller that has left _ensure_valid_auth() with the value ret.
Left(caller, ret) == [caller EXCEPT !.pc = "done", !.ret = ret]

\* Check that admits a caller only while no other caller is inside.
CheckUnderLock(c) ==
    /\ callers[c].pc = "idle"
    /\ \A d \in Callers \ {c} : callers[d].pc \in {"idle", "done"}
    /\ callers' =
         [callers EXCEPT ![c] =
            IF NeedsRefresh(api, now)
            THEN [@ EXCEPT !.pc = "refresh"]
            ELSE Left(@, "True")]
    /\ UNCHANGED <<api, now, requests, sequentialVars>>

\* _ensure_valid_auth(), lines 82-84: the caller reads the token and the
\* expiry; it returns True or goes on to _refresh_token().
Check(c) ==
    /\ callers[c].pc = "idle"
    /\ callers' =
         [callers EXCEPT ![c] =
            IF NeedsRefresh(api, now)
            THEN [@ EXCEPT !.pc = "refresh"]
            ELSE Left(@, "True")]
    /\ UNCHANGED <<api, now, requests, sequentialVars>>

\* _refresh_token(), lines 93-100: the caller reads the refresh token and
\* posts the refresh request.
SendRefresh(c) ==
    /\ callers[c].pc = "refresh"
    /\ requests' = Append(requests,
                          Request("refresh", api.refresh_token, 0, "none"))
    /\ callers' = [callers EXCEPT ![c].pc = "await"]
    /\ UNCHANGED <<api, now, sequentialVars>>

\* _refresh_token(), lines 101-113, and line 85: the provider answers; the
\* caller leaves with what _ensure_valid_auth() makes of a refresh that
\* wrote nothing, or holds the parsed response and goes on to the writes.
Receive(c) ==
    /\ callers[c].pc = "await"
    /\ \E resp \in AuthResponses :
        callers' =
          [callers EXCEPT ![c] =
             IF resp.kind = "transport" THEN Left(@, "True")
             ELSE IF ~ResponseOk(resp) \/ resp.status # 200
             THEN Left(@, "False")
             ELSE IF ~resp.json THEN Left(@, "raise")
             ELSE IF resp.fields = {} \/ "id_token" \notin resp.fields
             THEN Left(@, "False")
             ELSE [@ EXCEPT !.pc = "write_auth_token", !.resp = resp]]
    /\ UNCHANGED <<api, now, requests, sequentialVars>>

\* _refresh_token(), line 115: self.auth_token = response_json["id_token"]
WriteAuthToken(c) ==
    /\ callers[c].pc = "write_auth_token"
    /\ api' = [api EXCEPT !.auth_token = callers[c].resp.tok]
    /\ callers' = [callers EXCEPT ![c].pc = "write_expire_date"]
    /\ UNCHANGED <<now, requests, sequentialVars>>

\* _refresh_token(), lines 116-118: self.auth_token_expire_date = now +
\* expires_in; KeyError when the response has no expires_in.
WriteExpireDate(c) ==
    /\ callers[c].pc = "write_expire_date"
    /\ IF "expires_in" \notin callers[c].resp.fields
       THEN /\ callers' = [callers EXCEPT ![c] = Left(@, "raise")]
            /\ UNCHANGED api
       ELSE /\ api' = [api EXCEPT !.auth_token_expire_date
                                     = now + callers[c].resp.ttl]
            /\ callers' = [callers EXCEPT ![c].pc = "write_refresh_token",
                                          ![c].date = now + callers[c].resp.ttl]
    /\ UNCHANGED <<now, requests, sequentialVars>>

\* _refresh_token(), lines 119-121: self.refresh_token =
\* response_json["refresh_token"]; return True; KeyError when the response
\* has no refresh_token.
WriteRefreshToken(c) ==
    /\ callers[c].pc = "write_refresh_token"
    /\ IF "refresh_token" \notin callers[c].resp.fields
       THEN /\ callers' = [callers EXCEPT ![c] = Left(@, "raise")]
            /\ UNCHANGED api
       ELSE /\ api' = [api EXCEPT !.refresh_token = callers[c].resp.tok]
            /\ callers' = [callers EXCEPT ![c] = Left(@, "True")]
    /\ UNCHANGED <<now, requests, sequentialVars>>

\* The client after a successful initialize_authentication() at time 0, at
\* that or any later time, with no caller inside _ensure_valid_auth() yet.
InitConcurrent ==
    /\ \E resp \in AuthResponses :
        /\ AuthReply(resp) = "ok"
        /\ api = InitializeAuthentication(
                    [username |-> "user", password |-> "secret",
                     refresh_token |-> None, auth_token |-> None,
                     auth_token_expire_date |-> NoDate], 0, resp).api
    /\ now \in 0..MaxTime
    /\ op = "none"
    /\ login = NoResponse
    /\ ensures = <<>>
    /\ requests = <<>>
    /\ result = NoResult
    /\ fresh = FALSE
    /\ args = NoArgs
    /\ stale = FALSE
    /\ callers = [c \in Callers |-> Outside]

NextConcurrent ==
    \/ Tick
    \/ \E c \in Callers :
        \/ Check(c)
        \/ SendRefresh(c)
        \/ Receive(c)
        \/ WriteAuthToken(c)
        \/ WriteExpireDate(c)
        \/ WriteRefreshToken(c)

SpecConcurrent == InitConcurrent /\ [][NextConcurrent]_vars

(* ------------------------ vocabulary of the claims --------------------- *)

\* The operations that call _ensure_valid_auth() first.
ReadOps ==
    {"get_local_id", "get_installations", "get_installation_by_id",
     "get_device", "get_latest_firmware"}

\* The commands: the operations that send PATCH requests.
CommandOps == {"set_device_temp", "set_device_preset", "set_device_mode"}

AuthenticatedOps ==
    ReadOps \cup {"get_latest_energy_stats"} \cup CommandOps

\* The access token of session s is present and, at time t, not expired.
TokenValid(s, t) ==
    /\ s.auth_token # None
    /\ \/ s.auth_token_expire_date = NoDate
       \/ s.auth_token_expire_date >= t

\* The session s holds an access token and a refresh token.
Populated(s) == s.auth_token # None /\ s.refresh_token # None

\* The _ensure_valid_auth() call ev triggered a refresh that failed: a
\* non-200 response, a transport failure or a response missing fields.
RefreshFailed(ev) ==
    ev.refresh /\ ev.reply \in {"status", "transport", "no_id_token", "partial"}

\* The call that has just run failed: it returned success = false, or raised.
CallFailed == ~(result.kind = "returned" /\ result.success)

IsRefresh(r) == r.endpoint = "refresh"

IsResource(r) == r.endpoint \notin {"refresh", "login"}

IsEnergy(r) == r.endpoint = "energy"

IsPatch(r) == r.endpoint = "patch"

\* The PATCH requests of the call that has just run, in order.
Patches == SelectSeq(requests, IsPatch)

\* The body of a PATCH request without the timestamp field that
\* _send_patch_request() adds to every body.
Fields(r) ==
    [k \in (DOMAIN r.body) \ {"last_sync_datetime_app"} |-> r.body[k]]

\* The PATCH request r carries the timestamp of the call.
Stamped(r) ==
    /\ "last_sync_datetime_app" \in DOMAIN r.body
    /\ r.body.last_sync_datetime_app = now

\* The call returned the failed result of a PATCH answered as r says.
ReturnedFailureOf(r) ==
    /\ r.reply \in {"transport", "status"}
    /\ result.kind = "returned"
    /\ ~result.success
    /\ result.data = "None"
    /\ result.error_message
         = (IF r.reply = "transport" THEN "Network error" ELSE "None")

\* The command that has just run passed _ensure_valid_auth().
GatePassed == Len(ensures) = 1 /\ ensures[1].ret = "True"

\* The command that has just run was called with a valid session: the
\* access token present and not expired.
ValidSession ==
    Len(ensures) = 1 /\ TokenValid(ensures[1].before, ensures[1].at)

\* The hour that holds the current time, computed from its definition.
CurrentHour ==
    CHOOSE h \in (0 - TicksPerHour)..now :
        h % TicksPerHour = 0 /\ h <= now /\ now < h + TicksPerHour

(* ------------------------------- claims -------------------------------- *)

\* C1: a failed _refresh_token() (non-200 response, transport failure or a
\* response missing expected fields), called on a populated session, leaves
\* the access token, the refresh token and the expiry as they were.
C1_FailedRefreshKeepsSession ==
    \A i \in DOMAIN ensures :
        (RefreshFailed(ensures[i]) /\ Populated(ensures[i].before))
            => ensures[i].after = ensures[i].before

\* C2: whenever the refresh triggered by _ensure_valid_auth() fails, the
\* refresh reports false and _ensure_valid_auth() returns false; it returns
\* true after a triggered refresh only when the refresh replaced the session.
C2_FailedRefreshReturnsFalse ==
    \A i \in DOMAIN ensures :
        /\ RefreshFailed(ensures[i])
             => ensures[i].refresh_ret = "False" /\ ensures[i].ret = "False"
        /\ (ensures[i].refresh /\ ensures[i].ret = "True")
             => ensures[i].reply = "ok"

\* C3: _ensure_valid_auth() returns true if and only if, when it returns, the
\* access token is present and the expiry is absent or not before now.
C3_EnsureTrueIffTokenValid ==
    \A i \in DOMAIN ensures :
        ensures[i].ret \in {"True", "False"}
            => (ensures[i].ret = "True"
                  <=> TokenValid(ensures[i].after, ensures[i].at))

\* C4: with the access token present and the expiry absent or >= now (equality
\* included) _ensure_valid_auth() returns true and sends no refresh request;
\* a refresh request is sent only when the token is absent or expiry < now;
\* and an authenticated operation that follows a successful
\* initialize_authentication() with no clock advance sends no refresh request.
C4_ValidTokenNoRefresh ==
    /\ \A i \in DOMAIN ensures :
        /\ TokenValid(ensures[i].before, ensures[i].at)
             => ensures[i].ret = "True" /\ ~ensures[i].refresh
        /\ ensures[i].refresh
             => \/ ensures[i].before.auth_token = None
                \/ /\ ensures[i].before.auth_token_expire_date # NoDate
                   /\ ensures[i].before.auth_token_expire_date < ensures[i].at
    /\ Len(SelectSeq(requests, IsRefresh))
         = Cardinality({i \in DOMAIN ensures : ensures[i].refresh})
    /\ (fresh /\ op \in AuthenticatedOps)
         => /\ Len(ensures) >= 1
            /\ SelectSeq(requests, IsRefresh) = <<>>

\* C4 witness: an authenticated operation right after a successful login
\* whose token expires exactly now passed the gate without a refresh.
C4_Witness ==
    /\ op \in AuthenticatedOps
    /\ fresh
    /\ ensures[1].before.auth_token_expire_date = ensures[1].at
    /\ ensures[1].ret = "True"
    /\ SelectSeq(requests, IsRefresh) = <<>>

\* C5: after a failed initialize_authentication() the access token, the
\* refresh token and the expiry are all absent.
C5_FailedLoginClearsSession ==
    (op = "initialize_authentication" /\ CallFailed)
        => /\ api.auth_token = None
           /\ api.refresh_token = None
           /\ api.auth_token_expire_date = NoDate

C7_LoginPopulatesAndCleans ==
    /\ [](  (op = "initialize_authentication" /\ ~CallFailed)
              => /\ AuthReply(login) = "ok"
                 /\ api.auth_token = login.tok
                 /\ api.refresh_token = login.tok
                 /\ api.auth_token_expire_date = now + login.ttl
                 /\ api.username = "None"
                 /\ api.password = "None")
    /\ [][ (api.username = "None" /\ api.password = "None")
              => (api.username' = "None" /\ api.password' = "None") ]_vars

\* C7 witness: a login after the clock has advanced succeeded and left the
\* session with its token and with the expiry now + TTL.
C7_Witness ==
    /\ op = "initialize_authentication"
    /\ ~CallFailed
    /\ api.auth_token = 2
    /\ api.auth_token_expire_date = now + 1
    /\ now > 0
    /\ api.username = "None"

\* C8: every public operation, under every transport outcome (connection
\* failure, any HTTP status, empty payload, or a complete answer), ends by
\* returning an ApiResponse; it never raises.
C8_NeverRaises ==
    (/\ op # "none"
     /\ \A j \in DOMAIN requests :
          requests[j].reply \in {"transport", "status", "empty", "full", "ok"})
        => result.kind = "returned"

\* C9: a read operation whose _ensure_valid_auth() returns false returns the
\* failed result "Invalid authentication." and sends no resource request; one
\* whose _ensure_valid_auth() returns true sends exactly one resource request.
C9_ReadGate ==
    op \in ReadOps
        => /\ Len(ensures) = 1
           /\ ensures[1].ret = "False"
                => /\ result
                        = ApiResponse(FALSE, "None", "Invalid authentication.")
                   /\ SelectSeq(requests, IsResource) = <<>>
           /\ ensures[1].ret = "True"
                => /\ Len(SelectSeq(requests, IsResource)) = 1
                   /\ requests[Len(requests)].endpoint = op

\* C9 witness: a read operation was refused after a refresh that failed.
C9_Witness ==
    /\ op \in ReadOps
    /\ ensures[1].ret = "False"
    /\ ensures[1].refresh
    /\ result.error_message = "Invalid authentication."

\* C10: when the fetches for H, H-1, ..., H-(k-1) report no data and the fetch
\* for H-k succeeds (0 <= k <= 4, H = now truncated to the hour),
\* get_latest_energy_stats makes exactly k+1 fetches, in that order, and
\* returns a successful record for [H-k, H-k+1h).
C10_EnergySearchFindsLatest ==
    op = "get_latest_energy_stats"
        => LET fetches == SelectSeq(requests, IsEnergy)
           IN  \A k \in 0..(ENERGY_STATS_MAX_TRIES - 1) :
                 (/\ Len(fetches) >= k + 1
                  /\ \A i \in 1..k : fetches[i].reply = "empty"
                  /\ fetches[k + 1].reply = "full")
                    => /\ Len(fetches) = k + 1
                       /\ Len(ensures) = k + 1
                       /\ \A i \in 1..(k + 1) :
                            fetches[i].hour = CurrentHour - (i - 1) * TicksPerHour
                       /\ result.kind = "returned"
                       /\ result.success
                       /\ result.error_message = "None"
                       /\ result.start = CurrentHour - k * TicksPerHour
                       /\ result.end = result.start + TicksPerHour

\* C10 witness: called in the middle of an hour, the search found data at
\* the fourth fetch, three hours back.
C10_Witness ==
    /\ op = "get_latest_energy_stats"
    /\ now % TicksPerHour # 0
    /\ Len(SelectSeq(requests, IsEnergy)) = 4
    /\ result.kind = "returned"
    /\ result.success
    /\ result.start = CurrentHour - 3 * TicksPerHour

\* C11: get_latest_energy_stats makes at most ENERGY_STATS_MAX_TRIES fetches;
\* it returns "Max tries exceeded." exactly when that many fetches were made
\* and every one of them reported no data; a fetch that fails in any other
\* way (authentication refused, transport failure, a status other than 200)
\* is the last one, and the call returns that fetch's failed result, which is
\* not the max-tries error.
C11_EnergySearchTerminates ==
    op = "get_latest_energy_stats"
        => LET fetches == SelectSeq(requests, IsEnergy)
               last == ensures[Len(ensures)]
               maxTries ==
                   /\ result.kind = "returned"
                   /\ result.error_message = "Max tries exceeded."
           IN  /\ Len(fetches) <= ENERGY_STATS_MAX_TRIES
               /\ Len(ensures) <= ENERGY_STATS_MAX_TRIES
               /\ maxTries
                    <=> /\ Len(fetches) = ENERGY_STATS_MAX_TRIES
                        /\ \A i \in DOMAIN fetches : fetches[i].reply = "empty"
               /\ \A i \in DOMAIN fetches :
                    fetches[i].reply \in {"transport", "status"}
                        => /\ i = Len(fetches)
                           /\ result.kind = "returned"
                           /\ ~result.success
                           /\ result.error_message
                                \in {"Network error",
                                     "_retrieve_hour_energy_stats() returned status"}
               /\ last.ret = "False"
                    => result
                         = ApiResponse(FALSE, "None", "Invalid authentication.")

\* C12: set_device_mode(device, "off") past the gate: for a device in auto
\* mode exactly one PATCH {power: false, mode: auto, status: off} is sent;
\* for a device in manual mode the PATCH {temp: 20} is sent first and the
\* PATCH {power: false, mode: manual, status: off} second, only when the
\* first succeeded; when the first fails it is the only one and the call
\* returns its failed result.
C12_ModeOff ==
    (op = "set_device_mode" /\ args.hvac_mode = "off" /\ GatePassed)
        => /\ \A i \in DOMAIN Patches : Stamped(Patches[i])
           /\ args.device.mode = "auto"
                => /\ Len(Patches) = 1
                   /\ Fields(Patches[1])
                        = [power |-> FALSE, mode |-> "auto", status |-> "off"]
           /\ args.device.mode = "manual"
                => /\ Len(Patches) \in {1, 2}
                   /\ Fields(Patches[1]) = [temp |-> 20]
                   /\ Len(Patches) = 2 <=> Patches[1].reply = "ok"
                   /\ Len(Patches) = 2
                        => Fields(Patches[2])
                             = [power |-> FALSE, mode |-> "manual",
                                status |-> "off"]
                   /\ Patches[1].reply # "ok" => ReturnedFailureOf(Patches[1])

\* C12 witness: turning off a device in manual mode with a valid token, the
\* first PATCH was answered by a status other than 200 and no second followed.
C12_Witness ==
    /\ op = "set_device_mode"
    /\ args.hvac_mode = "off"
    /\ args.device.mode = "manual"
    /\ TokenValid(ensures[1].before, now)
    /\ Len(Patches) = 1
    /\ Patches[1].reply = "status"
    /\ ~result.success

\* C13: set_device_mode(device, "auto") past the gate sends first a PATCH
\* {temp: T}, T resolved from the schedule slot of the current weekday and
\* hour: comfort_temp for a Comfort slot, eco_temp for an Eco slot, otherwise
\* ice_temp when the anti-frost flag is set, otherwise 20; the PATCH
\* {mode: auto, power: true} follows only when the first succeeded; when the
\* first fails it is the only one and the call returns its failed result.
C13_ModeAuto ==
    (op = "set_device_mode" /\ args.hvac_mode = "auto" /\ GatePassed)
        => LET device == args.device
               slot == device.schedule[<<Weekday(now), HourIndex(now)>>]
               resolved ==
                   CASE slot = "C" -> device.comfort_temp
                     [] slot = "E" -> device.eco_temp
                     [] slot \notin {"C", "E"} /\ device.ice_mode
                          -> device.ice_temp
                     [] slot \notin {"C", "E"} /\ ~device.ice_mode -> 20
           IN  /\ Len(Patches) \in {1, 2}
               /\ \A i \in DOMAIN Patches : Stamped(Patches[i])
               /\ Fields(Patches[1]) = [temp |-> resolved]
               /\ Len(Patches) = 2 <=> Patches[1].reply = "ok"
               /\ Len(Patches) = 2
                    => Fields(Patches[2]) = [mode |-> "auto", power |-> TRUE]
               /\ Patches[1].reply # "ok" => ReturnedFailureOf(Patches[1])

\* C13 witness: in the second hour, a device with the anti-frost flag whose
\* schedule has Comfort in the first hour and nothing in the second was set
\* to auto with a valid token: ice_temp was sent, then the mode.
C13_Witness ==
    /\ op = "set_device_mode"
    /\ args.hvac_mode = "auto"
    /\ TokenValid(ensures[1].before, now)
    /\ HourIndex(now) = 1
    /\ args.device.schedule[<<0, 0>>] = "C"
    /\ args.device.schedule[<<0, 1>>] = "O"
    /\ args.device.ice_mode
    /\ Len(Patches) = 2
    /\ Patches[1].body.temp = args.device.ice_temp
    /\ result.success

\* C14: set_device_mode(device, "heat") past the gate sends the PATCH
\* {temp: comfort_temp} first and the PATCH {mode: manual, power: true,
\* status: none} second, only when the first succeeded; and for every HVAC
\* mode the call sends at most two PATCHes, a PATCH that fails is the last
\* one, and the call returns the failed result of that PATCH.
C14_ModeHeatAndAbort ==
    op = "set_device_mode"
        => /\ Len(Patches) <= 2
           /\ ~GatePassed => Len(Patches) = 0
           /\ \A i \in DOMAIN Patches :
                Patches[i].reply # "ok"
                    => i = Len(Patches) /\ ReturnedFailureOf(Patches[i])
           /\ (Len(Patches) >= 1 /\ Patches[Len(Patches)].reply = "ok")
                => result = ApiResponse(TRUE, "None", "None")
           /\ (args.hvac_mode = "heat" /\ GatePassed)
                => /\ Len(Patches) \in {1, 2}
                   /\ Fields(Patches[1])
                        = [temp |-> args.device.comfort_temp]
                   /\ Len(Patches) = 2 <=> Patches[1].reply = "ok"
                   /\ Len(Patches) = 2
                        => Fields(Patches[2])
                             = [mode |-> "manual", power |-> TRUE,
                                status |-> "none"]

\* C14 witness: setting a device to heat with a valid token, the first PATCH
\* met a transport failure; no second PATCH followed and the call returned
\* the network error.
C14_Witness ==
    /\ op = "set_device_mode"
    /\ args.hvac_mode = "heat"
    /\ TokenValid(ensures[1].before, now)
    /\ Len(Patches) = 1
    /\ Patches[1].reply = "transport"
    /\ result = ApiResponse(FALSE, "None", "Network error")

\* C15: set_device_preset(device, "off") with a valid session sends exactly
\* one PATCH, whose body is {power: false, mode: "manual", temp: 20,
\* status: "none"} and the timestamp, whatever the device.
C15_PresetOff ==
    (op = "set_device_preset" /\ args.preset_mode = "off" /\ ValidSession)
        => /\ Len(Patches) = 1
           /\ Stamped(Patches[1])
           /\ Fields(Patches[1])
                = [power |-> FALSE, mode |-> "manual", temp |-> 20,
                   status |-> "none"]

\* C16: set_device_preset() with a preset that is none of comfort, eco,
\* anti-frost (in either spelling) and off returns a failed result and sends
\* no PATCH.
C16_UnknownPresetRejected ==
    (/\ op = "set_device_preset"
     /\ args.preset_mode
          \notin {"comfort", "eco", "Anti-frost", "anti-frost", "off"})
        => /\ result.kind = "returned"
           /\ ~result.success
           /\ Len(Patches) = 0

\* C17: in every reachable state the access token and the refresh token of
\* the session are both present or both absent.
C17_TokensTogether ==
    (api.auth_token = None) <=> (api.refresh_token = None)

\* C18: the access token, the refresh token and the expiry of the session
\* come from one provider response: a refresh step either leaves the three
\* fields as they were or was answered by a complete response, and the two
\* tokens of the session are always those of one response (a response
\* carries one number for the pair it issues, so tokens of one response are
\* equal).
C18_AtomicSessionWrites ==
    /\ api.auth_token = api.refresh_token
    /\ \A i \in DOMAIN ensures :
        \/ ensures[i].after = ensures[i].before
        \/ /\ ensures[i].reply = "ok"
           /\ ensures[i].after.auth_token = ensures[i].after.refresh_token
           /\ ensures[i].after.auth_token_expire_date >= ensures[i].at

\* C19: once a refresh has failed on an Expired session, and until
\* initialize_authentication() succeeds again, every authenticated operation
\* fails _ensure_valid_auth(): it returns the invalid-authentication failure
\* and sends no resource request.
C19_ExpiredStaysExpired ==
    (stale /\ op \in AuthenticatedOps)
        => /\ \A i \in DOMAIN ensures : ensures[i].ret = "False"
           /\ result = ApiResponse(FALSE, "None", "Invalid authentication.")
           /\ SelectSeq(requests, IsResource) = <<>>

\* C20: no authenticated operation, read or command, sends a login request,
\* also when its refresh fails; a login request is sent only by
\* initialize_authentication(), once per call.
C20_NoImplicitLogin ==
    LET logins == SelectSeq(requests, LAMBDA r : r.endpoint = "login")
    IN  /\ op \in AuthenticatedOps => logins = <<>> /\ login = NoResponse
        /\ logins # <<>> => op = "initialize_authentication"
        /\ op = "initialize_authentication" => Len(logins) = 1

\* C20 witness: a command on an Expired session had its refresh refused by
\* the provider and returned the invalid-authentication failure: it sent the
\* refresh request and nothing else.
C20_Witness ==
    /\ op \in CommandOps
    /\ Expired(ensures[1].before, ensures[1].at)
    /\ ensures[1].reply = "status"
    /\ result = ApiResponse(FALSE, "None", "Invalid authentication.")
    /\ Len(requests) = 1
    /\ requests[1].endpoint = "refresh"

\* C21: every PATCH a command sends is preceded by its own
\* _ensure_valid_auth() call: a command makes as many gate calls as it sends
\* PATCHes (one more when the last gate call refused), and each PATCH carries
\* the access token the session held after the gate call made for it.
C21_GateBeforeEveryPatch ==
    op \in CommandOps
        => /\ Len(ensures) >= Len(Patches)
           /\ \A j \in DOMAIN Patches :
                /\ ensures[j].ret = "True"
                /\ Patches[j].token = ensures[j].after.auth_token

\* C24: a request is sent to the device platform (GET or PATCH) only when,
\* after the _ensure_valid_auth() call made for it, the session held an
\* access token that was present and not expired, and the request carries
\* that token; also when the refresh met a transport failure.
C24_NoRequestWithoutValidToken ==
    op \in AuthenticatedOps
        => LET sent == SelectSeq(requests, IsResource)
           IN  \A j \in DOMAIN sent :
                 LET ev == ensures[IF op \in CommandOps THEN 1 ELSE j]
                 IN  /\ TokenValid(ev.after, ev.at)
                     /\ sent[j].token = ev.after.auth_token
                     /\ sent[j].token # None

\* C25: every result returned with success = false carries an error reason
\* and every result returned with success = true carries none; so does the
\* result of a failed PATCH that a command returns.
C25_FailureHasReason ==
    result.kind = "returned"
        => (result.success <=> result.error_message = "None")

\* C22: nothing serialises _ensure_valid_auth() and _refresh_token() between
\* two callers: wherever the other caller is, a caller outside can make its
\* check, a caller that saw the token absent or expired can send its refresh
\* request, and one that sent it can receive the answer; and a caller goes
\* on to the refresh exactly as long as the session it reads needs one.
C22_RefreshNotSerialised ==
    \A c \in Callers :
        /\ callers[c].pc = "idle" => ENABLED Check(c)
        /\ callers[c].pc = "refresh" => ENABLED SendRefresh(c)
        /\ callers[c].pc = "await" => ENABLED Receive(c)
        /\ (\A d \in Callers : callers[d].pc \in {"refresh", "await"})
             => Len(requests)
                  = Cardinality({d \in Callers : callers[d].pc = "await"})

\* C22 witness: both callers saw the expired token and both have sent a
\* refresh request with the same refresh token; neither has written the
\* session.
C22_Witness ==
    /\ \A c \in Callers : callers[c].pc = "await"
    /\ Expired(api, now)
    /\ Len(requests) = 2
    /\ \A j \in DOMAIN requests :
         /\ requests[j].endpoint = "refresh"
         /\ requests[j].token = api.refresh_token

\* C23: when both callers have completed a successful refresh, the access
\* token, the expiry and the refresh token of the session all come from the
\* response of one of them.
C23_NoMixedTriple ==
    (\A c \in Callers :
        /\ callers[c].pc = "done"
        /\ callers[c].ret = "True"
        /\ AuthReply(callers[c].resp) = "ok")
        => \E c \in Callers :
             /\ api.auth_token = callers[c].resp.tok
             /\ api.auth_token_expire_date = callers[c].date
             /\ api.refresh_token = callers[c].resp.tok

=============================================================================
